---------------------------- MODULE Spec2Model ----------------------------
(***************************************************************************)
(* Model of pdf_hyperlink2attachment.py: main() -> user_args() ->          *)
(* hyperlinks2attachments(infile, outfile) -> Hyperlinks2Attachments.      *)
(*                                                                         *)
(* Strings (URIs, file names) are sequences of one-character strings, so   *)
(* that str.startswith, re.sub('^file:///', ...) and pathlib's parsing are *)
(* computed rather than assumed.  Paths follow pathlib.PurePosixPath.      *)
(***************************************************************************)
EXTENDS Naturals, Sequences, FiniteSets

(***************************************************************************)
(* Bounds of the model.                                                    *)
(***************************************************************************)
MaxPages == 2
MaxLinks == 2

(***************************************************************************)
(* Strings.                                                                *)
(***************************************************************************)
RECURSIVE StartsWith(_, _)
\* str.startswith(prefix) for one prefix
StartsWith(s, prefix) ==
    IF prefix = <<>> THEN TRUE
    ELSE IF s = <<>> THEN FALSE
    ELSE Head(s) = Head(prefix) /\ StartsWith(Tail(s), Tail(prefix))

sHttp == <<"h","t","t","p",":">>
sHttps == <<"h","t","t","p","s",":">>
sFtp == <<"f","t","p",":">>
sMailto == <<"m","a","i","l","t","o",":">>
sFile3 == <<"f","i","l","e",":","/","/","/">>
sPdf == <<".","p","d","f">>

\* the tuple of prefixes of line 110
RemotePrefixes == <<sHttp, sHttps, sFtp, sMailto>>

\* uri.startswith(('http:', 'https:', 'ftp:', 'mailto:'))
IsRemote(uri) ==
    \E k \in 1..Len(RemotePrefixes) : StartsWith(uri, RemotePrefixes[k])

\* re.sub('^file:///', '', uri)
StripFile3(uri) ==
    IF StartsWith(uri, sFile3) THEN SubSeq(uri, Len(sFile3) + 1, Len(uri)) ELSE uri

(***************************************************************************)
(* pathlib.  A path is [anchor, parts]: anchor "" (relative), "/" or "//", *)
(* parts the components without the anchor.                                *)
(***************************************************************************)
RECURSIVE LeadingSlashes(_)
LeadingSlashes(s) ==
    IF s # <<>> /\ Head(s) = "/" THEN 1 + LeadingSlashes(Tail(s)) ELSE 0

RECURSIVE SplitSlash(_, _)
\* s.split('/') with the component under construction in cur
SplitSlash(s, cur) ==
    IF s = <<>> THEN <<cur>>
    ELSE IF Head(s) = "/" THEN <<cur>> \o SplitSlash(Tail(s), <<>>)
    ELSE SplitSlash(Tail(s), Append(cur, Head(s)))

RECURSIVE DropEmptyAndDot(_)
\* pathlib drops empty components and '.', and keeps '..'
DropEmptyAndDot(cs) ==
    IF cs = <<>> THEN <<>>
    ELSE IF Head(cs) = <<>> \/ Head(cs) = <<".">> THEN DropEmptyAndDot(Tail(cs))
    ELSE <<Head(cs)>> \o DropEmptyAndDot(Tail(cs))

\* Path(s): exactly two leading slashes are kept as the root '//'
PathOf(s) ==
    [anchor |-> IF LeadingSlashes(s) = 0 THEN ""
                ELSE IF LeadingSlashes(s) = 2 THEN "//" ELSE "/",
     parts  |-> DropEmptyAndDot(SplitSlash(s, <<>>))]

\* Path / str: an absolute right operand replaces the left one
JoinPath(base, s) ==
    IF PathOf(s).anchor # "" THEN PathOf(s)
    ELSE [anchor |-> base.anchor, parts |-> base.parts \o PathOf(s).parts]

\* Path.name: the last component ('' when there is none)
PathName(p) == IF p.parts = <<>> THEN <<>> ELSE p.parts[Len(p.parts)]

RECURSIVE LastDot(_, _)
\* the index of the last '.' among the first n characters of a name, 0 if none
LastDot(name, n) ==
    IF n = 0 THEN 0 ELSE IF name[n] = "." THEN n ELSE LastDot(name, n - 1)

\* Path.suffix: from the last '.' of the name, unless the name starts or ends
\* with it
PathSuffix(p) ==
    IF /\ LastDot(PathName(p), Len(PathName(p))) > 1
       /\ LastDot(PathName(p), Len(PathName(p))) < Len(PathName(p))
      THEN SubSeq(PathName(p), LastDot(PathName(p), Len(PathName(p))), Len(PathName(p)))
      ELSE <<>>

(***************************************************************************)
(* The disk the run sees: directories and regular files as sequences of    *)
(* components from the root, and the working directory of the process.     *)
(* No symbolic links.  DiskFiles are the files that hyperlinks point to;   *)
(* the input and output documents are on the disk or not as the invocation *)
(* says (FilesAtStart), and the state variable disk holds all the files.   *)
(***************************************************************************)
dW == <<"w">>
dS == <<"s">>
dA == <<"a">>
fX == <<"x">>
fY == <<"y">>
DotDot == <<".", ".">>

DiskDirs == { <<>>, <<dW>>, <<dW, dS>>, <<dW, dA>> }
DiskFiles == { <<dW, fX>>, <<dW, dA, fX>>, <<dW, fY>> }
Cwd == <<>>

RECURSIVE Collapse(_, _)
\* the components cs followed from the directory at, '..' stepping up
Collapse(at, cs) ==
    IF cs = <<>> THEN at
    ELSE IF Head(cs) = DotDot
      THEN Collapse(IF at = <<>> THEN at ELSE SubSeq(at, 1, Len(at) - 1), Tail(cs))
    ELSE Collapse(Append(at, Head(cs)), Tail(cs))

\* Path.resolve(): absolute from the working directory, without '..'
ResolvePath(p) ==
    [anchor |-> "/",
     parts  |-> Collapse(IF p.anchor = "" THEN Cwd ELSE <<>>, p.parts)]

\* Path.parent
PathParent(p) ==
    [anchor |-> p.anchor,
     parts  |-> IF p.parts = <<>> THEN <<>> ELSE SubSeq(p.parts, 1, Len(p.parts) - 1)]

\* Path(self.pdf.filename).resolve().parent
PdfDir(filename) == PathParent(ResolvePath(PathOf(filename)))

RECURSIVE Walk(_, _, _)
\* the kernel's lookup of the components cs from the directory at, on a disk
\* with the regular files files
Walk(files, at, cs) ==
    IF cs = <<>> THEN [ok |-> at \in DiskDirs \cup files, at |-> at]
    ELSE IF at \notin DiskDirs THEN [ok |-> FALSE, at |-> at]
    ELSE IF Head(cs) = DotDot
      THEN Walk(files, IF at = <<>> THEN at ELSE SubSeq(at, 1, Len(at) - 1), Tail(cs))
    ELSE Walk(files, Append(at, Head(cs)), Tail(cs))

\* what a path names on the disk
Lookup(files, p) == Walk(files, IF p.anchor = "" THEN Cwd ELSE <<>>, p.parts)

\* a plausible slip: the existence test left out
PathExistsAlways(files, p) == TRUE

\* Path.exists()
PathExists(files, p) == Lookup(files, p).ok

(***************************************************************************)
(* The URIs the documents of the model are built from.                     *)
(***************************************************************************)
uHttp == sHttp \o <<"/","/","h">>
uHttps == sHttps \o <<"/","/","h">>
uFtp == sFtp \o <<"/","/","h">>
uMailto == sMailto \o <<"m">>
uX == <<"x">>
uSubX == <<"s","/",".",".","/","x">>
uFileWX == sFile3 \o <<"w","/","x">>
uFileAbsWX == sFile3 \o <<"/","w","/","x">>
uAX == <<"a","/","x">>
uY == <<"y">>
uGone == <<"g">>
uTel == <<"t","e","l",":","1">>

Uris == { uHttp, uHttps, uFtp, uMailto, uX, uSubX, uFileWX, uFileAbsWX,
          uAX, uY, uGone, uTel }

(***************************************************************************)
(* Documents.  A page has /Annots or not; an annotation has /A or not, and *)
(* /A has /URI or not.  FS = 0 and AP.id = 0 stand for an absent key.      *)
(* Indices are 1-based here (page.index and enumerate() count from 0).     *)
(***************************************************************************)
NoAP == [id |-> 0, rect |-> <<>>]

Action(hasURI, uri) == [present |-> TRUE, hasURI |-> hasURI, URI |-> uri]
NoAction == [present |-> FALSE, hasURI |-> FALSE, URI |-> <<>>]

\* what an annotation of an input document carries besides its rectangle
AnnotKinds ==
    { [Subtype |-> "Text", A |-> NoAction], [Subtype |-> "Link", A |-> Action(FALSE, <<>>)] }
    \cup { [Subtype |-> "Link", A |-> Action(TRUE, u)] : u \in Uris }

\* the rectangle of the annotation at slot i of page p: distinct for every slot
RectAt(p, i) == <<10 * p + i, 0, 10 * p + i + 1, 1>>

MkAnnot(kind, p, i) ==
    [Subtype |-> kind.Subtype, A |-> kind.A, Rect |-> RectAt(p, i),
     FS |-> 0, Contents |-> <<>>, AP |-> NoAP]

RECURSIVE SumSeq(_)
SumSeq(s) == IF s = <<>> THEN 0 ELSE Head(s) + SumSeq(Tail(s))

\* a shape gives every page the length of its /Annots, 0 for a page without
\* /Annots (an empty /Annots array, which the loop of line 99 passes over, is
\* not among the inputs)
Shapes ==
    UNION { { s \in [1..n -> 0..MaxLinks] : SumSeq(s) <= MaxLinks } : n \in 1..MaxPages }

AnnotCount(shape, p) == shape[p]
Offset(shape, p) == SumSeq(SubSeq(shape, 1, p - 1))
TotalAnnots(shape) == SumSeq(shape)

MkDoc(shape, flat) ==
    [p \in 1..Len(shape) |->
        [hasAnnots |-> shape[p] # 0,
         Annots |-> [i \in 1..AnnotCount(shape, p) |->
                        MkAnnot(flat[Offset(shape, p) + i], p, i)]]]

(***************************************************************************)
(* Hyperlinks2Attachments._get_local_hyperlinks                            *)
(***************************************************************************)
\* lines 114-124: the path a non-remote URI stands for
LocalPath(filename, uri) ==
    IF StartsWith(uri, sFile3) THEN PathOf(StripFile3(uri))
    ELSE JoinPath(PdfDir(filename), uri)

\* a plausible slip: enumerate(..., start=1), as on line 222
MkHyperLinkOffByOne(page_idx, annot_idx, annot, path) ==
    [page_idx |-> page_idx, annotation_idx |-> annot_idx + 1,
     position |-> annot.Rect, uri |-> path]

\* lines 129-132: HyperLink(page.index, annot_idx, annot['/Rect'], uri)
MkHyperLink(page_idx, annot_idx, annot, path) ==
    [page_idx |-> page_idx, annotation_idx |-> annot_idx,
     position |-> annot.Rect, uri |-> path]

NoPath == [anchor |-> "", parts |-> <<>>]

RECURSIVE ScanAnnots(_, _, _, _, _, _)
\* lines 99-132 from annotation k of a page on, acc the hyperlinks found so far:
\* the hyperlinks, or the path whose file is missing
ScanAnnots(files, filename, annots, page_idx, k, acc) ==
    IF k > Len(annots) THEN [ok |-> TRUE, hlinks |-> acc, missing |-> NoPath]
    ELSE IF ~annots[k].A.present THEN ScanAnnots(files, filename, annots, page_idx, k + 1, acc)
    ELSE IF ~annots[k].A.hasURI THEN ScanAnnots(files, filename, annots, page_idx, k + 1, acc)
    ELSE IF IsRemote(annots[k].A.URI) THEN ScanAnnots(files, filename, annots, page_idx, k + 1, acc)
    ELSE LET uri == LocalPath(filename, annots[k].A.URI)
         IN  IF ~PathExists(files, uri)
               THEN [ok |-> FALSE, hlinks |-> acc, missing |-> uri]
               ELSE ScanAnnots(files, filename, annots, page_idx, k + 1,
                               Append(acc, MkHyperLink(page_idx, k, annots[k], uri)))

RECURSIVE ScanPages(_, _, _, _, _)
\* lines 94-134 from page p on
ScanPages(files, filename, doc, p, acc) ==
    IF p > Len(doc) THEN [ok |-> TRUE, hlinks |-> acc, missing |-> NoPath]
    ELSE IF ~doc[p].hasAnnots THEN ScanPages(files, filename, doc, p + 1, acc)
    ELSE LET r == ScanAnnots(files, filename, doc[p].Annots, p, 1, acc)
         IN  IF r.ok THEN ScanPages(files, filename, doc, p + 1, r.hlinks) ELSE r

\* filename is self.pdf.filename, the input file as it was named to Pdf.open,
\* files the regular files on the disk
GetLocalHyperlinks(files, filename, doc) == ScanPages(files, filename, doc, 1, <<>>)

(***************************************************************************)
(* The registry of line 221 and _attach_file / _create_appearance_stream   *)
(***************************************************************************)
\* a plausible slip: description=hlink.uri.parent.name
NewFileSpecParentName(files, id, path) ==
    [obj |-> id, uri |-> path,
     description |-> IF Len(path.parts) > 1 THEN path.parts[Len(path.parts) - 1] ELSE <<>>,
     payload |-> Lookup(files, path).at]

\* lines 230-233: AttachedFileSpec.from_filepath(pdf, uri, description=uri.name);
\* payload is the file whose bytes are embedded
NewFileSpec(files, id, path) ==
    [obj |-> id, uri |-> path, description |-> PathName(path),
     payload |-> Lookup(files, path).at]

\* line 229: hlink.uri not in filespecs (a dict in insertion order)
InRegistry(specs, path) == \E k \in 1..Len(specs) : specs[k].uri = path

\* filespecs[hlink.uri]
Registered(specs, path) ==
    specs[CHOOSE k \in 1..Len(specs) : specs[k].uri = path]

\* lines 136-182: the appearance copied from the second temporary document;
\* its square is drawn at the rectangle it was asked for
CreateAppearanceStream(id, rect) == [id |-> id, rect |-> rect]

\* lines 187-202: the /FileAttachment annotation (its constant keys /Type,
\* /Name, /C, /T and /M are the same for every annotation and left out)
AttachFile(position, filespec, ap) ==
    [Subtype |-> "FileAttachment", A |-> NoAction, Rect |-> position,
     FS |-> filespec.obj, Contents |-> filespec.description, AP |-> ap]

\* a plausible slip: /Annots.insert(idx, ...) instead of the item assignment
ReplaceSlotInsert(doc, p, i, annot) ==
    [doc EXCEPT ![p].Annots =
        SubSeq(@, 1, i - 1) \o <<annot>> \o SubSeq(@, i, Len(@))]

\* lines 236-238: pdf.pages[page_idx]['/Annots'][annotation_idx] = ...
ReplaceSlot(doc, p, i, annot) == [doc EXCEPT ![p].Annots[i] = annot]

\* a plausible slip: the directories compared with the names
NamesOfFull(specs) == [k \in 1..Len(specs) |-> specs[k].uri.parts]

\* line 240: [x.name for x in filespecs]
NamesOf(specs) == [k \in 1..Len(specs) |-> PathName(specs[k].uri)]

\* lines 205-212: one warning when two of the names are equal
WarnIfSameName(files) ==
    IF Len(files) # Cardinality({ files[k] : k \in 1..Len(files) }) THEN 1 ELSE 0

(***************************************************************************)
(* The command line: user_args() and the checks of hyperlinks2attachments  *)
(***************************************************************************)
nAPdf == <<"w","/","a">> \o sPdf
nBPdf == <<"w","/","b">> \o sPdf
nATxt == <<"w","/","a",".","t","x","t">>
nBTxt == <<"w","/","b",".","t","x","t">>
nAPdfAbs == <<"/">> \o nAPdf
InFiles == {nAPdf, nATxt}
OutFiles == {nAPdf, nAPdfAbs, nBPdf, nBTxt}

\* the place on the disk a file name stands for
PlaceOf(name) == ResolvePath(PathOf(name)).parts

\* an invocation: the two file names and whether each names a file on the disk
\* when the run starts
ArgSet ==
    { a \in [infile : InFiles, outfile : OutFiles,
             inExists : BOOLEAN, outExists : BOOLEAN] :
        PlaceOf(a.infile) = PlaceOf(a.outfile) => a.inExists = a.outExists }

\* the regular files on the disk when the run of an invocation starts
FilesAtStart(a) ==
    DiskFiles \cup (IF a.inExists THEN { PlaceOf(a.infile) } ELSE {})
              \cup (IF a.outExists THEN { PlaceOf(a.outfile) } ELSE {})

\* os.path.samefile of two existing files: the same file of the disk (there
\* are no links), however the two names spell it
SameFile(files, a, b) == Lookup(files, PathOf(a)).at = Lookup(files, PathOf(b)).at

\* a plausible slip: only the input's extension is tested
UserArgsErrorInputOnly(files, a) ==
    IF PathSuffix(PathOf(a.infile)) # sPdf THEN "suffix"
    ELSE IF ~PathExists(files, PathOf(a.infile)) THEN "noinput"
    ELSE IF PathExists(files, PathOf(a.outfile)) /\ SameFile(files, a.infile, a.outfile)
      THEN "samefile"
    ELSE "none"

\* lines 62-70: the first check of user_args that fails, "none" when all pass
UserArgsError(files, a) ==
    IF <<PathSuffix(PathOf(a.infile)), PathSuffix(PathOf(a.outfile))>> # <<sPdf, sPdf>>
      THEN "suffix"
    ELSE IF ~PathExists(files, PathOf(a.infile)) THEN "noinput"
    ELSE IF PathExists(files, PathOf(a.outfile)) /\ SameFile(files, a.infile, a.outfile)
      THEN "samefile"
    ELSE "none"

\* lines 275-282: the first check of hyperlinks2attachments that fails
FnArgsError(files, a) ==
    IF ~PathExists(files, PathOf(a.infile)) THEN "noinput"
    ELSE IF PathSuffix(PathOf(a.infile)) # sPdf THEN "suffix"
    ELSE IF PathSuffix(PathOf(a.outfile)) # sPdf THEN "suffix"
    ELSE "none"

\* a plausible slip: save() reached only through the loop
AfterScanSaveInLoop(found) == IF Len(found) = 0 THEN "done" ELSE "attach"

\* lines 217-219 and 286-287: without local hyperlinks the method returns and
\* save() follows at once
AfterScan(found) == IF Len(found) = 0 THEN "save" ELSE "attach"

\* lines 246-267: what pdf.save(outfile, linearize=True, encryption=...) writes
SavedAs(doc, outfile) ==
    [path |-> outfile, pages |-> doc, PageLayout |-> "OneColumn",
     PageMode |-> "UseOutlines", linearize |-> TRUE, encrypted |-> TRUE]

(***************************************************************************)
(* State.                                                                  *)
(***************************************************************************)
VARIABLES
    pc,          \* where the run is
    entry,       \* "main": the command line; "api": a call of hyperlinks2attachments
    args,        \* the invocation
    disk,        \* the regular files on the disk
    pdf,         \* the pages of the open document, <<>> before Pdf.open
    isOpen,      \* the with-block of line 284 holds the document
    orig,        \* the pages as they were opened
    hlinks,      \* the result of _get_local_hyperlinks
    idx,         \* the loop index of line 222
    filespecs,   \* the dict of line 221, in insertion order
    nextId,      \* the next object number of the document
    apCreated,   \* appearance streams copied into the document
    tmpCreated,  \* temporary documents written by _create_appearance_stream
    warned,      \* warnings.warn calls
    written,     \* the documents written to outfile
    error,       \* the exception that ended the run, "none" if none
    errPath      \* the path named by the missing-file error

vars == <<pc, entry, args, disk, pdf, isOpen, orig, hlinks, idx, filespecs, nextId,
          apCreated, tmpCreated, warned, written, error, errPath>>

\* A call of hyperlinks2attachments() with infile = outfile is left out: what
\* pdf.save does when asked to overwrite its own input is the library's business.
Init ==
    /\ entry \in {"main", "api"}
    /\ args \in ArgSet
    /\ entry = "api" => PlaceOf(args.infile) # PlaceOf(args.outfile)
    /\ disk = FilesAtStart(args)
    /\ pc = IF entry = "main" THEN "user_args" ELSE "call"
    /\ pdf = <<>>
    /\ isOpen = FALSE
    /\ orig = <<>>
    /\ hlinks = <<>>
    /\ idx = 1
    /\ filespecs = <<>>
    /\ nextId = 1
    /\ apCreated = 0
    /\ tmpCreated = 0
    /\ warned = 0
    /\ written = <<>>
    /\ error = "none"
    /\ errPath = NoPath

\* user_args raises argparse.ArgumentTypeError
UserArgsReject ==
    /\ pc = "user_args"
    /\ UserArgsError(disk, args) # "none"
    /\ pc' = "failed"
    /\ error' = UserArgsError(disk, args)
    /\ UNCHANGED <<entry, args, disk, pdf, isOpen, orig, hlinks, idx, filespecs, nextId,
                   apCreated, tmpCreated, warned, written, errPath>>

\* user_args returns and main calls hyperlinks2attachments (line 300)
UserArgsAccept ==
    /\ pc = "user_args"
    /\ UserArgsError(disk, args) = "none"
    /\ pc' = "call"
    /\ UNCHANGED <<entry, args, disk, pdf, isOpen, orig, hlinks, idx, filespecs, nextId,
                   apCreated, tmpCreated, warned, written, error, errPath>>

\* hyperlinks2attachments raises ValueError (lines 275-282)
CallReject ==
    /\ pc = "call"
    /\ FnArgsError(disk, args) # "none"
    /\ pc' = "failed"
    /\ error' = FnArgsError(disk, args)
    /\ UNCHANGED <<entry, args, disk, pdf, isOpen, orig, hlinks, idx, filespecs, nextId,
                   apCreated, tmpCreated, warned, written, errPath>>

\* Pdf.open(infile) (line 284): the content of the input file is an input, any
\* document of at most MaxPages pages and MaxLinks annotations
Open ==
    /\ pc = "call"
    /\ FnArgsError(disk, args) = "none"
    /\ \E shape \in Shapes :
         \E flat \in [1..TotalAnnots(shape) -> AnnotKinds] :
            /\ pdf' = MkDoc(shape, flat)
            /\ orig' = MkDoc(shape, flat)
    /\ isOpen' = TRUE
    /\ pc' = "scan"
    /\ UNCHANGED <<entry, args, disk, hlinks, idx, filespecs, nextId, apCreated,
                   tmpCreated, warned, written, error, errPath>>

\* _get_local_hyperlinks raises ValueError (line 127); the with-block closes
ScanFail ==
    /\ pc = "scan"
    /\ LET r == GetLocalHyperlinks(disk, args.infile, pdf)
       IN  /\ ~r.ok
           /\ errPath' = r.missing
    /\ pc' = "failed"
    /\ error' = "missing"
    /\ isOpen' = FALSE
    /\ UNCHANGED <<entry, args, disk, pdf, orig, hlinks, idx, filespecs, nextId,
                   apCreated, tmpCreated, warned, written>>

\* _get_local_hyperlinks returns (line 216); lines 217-221
ScanOk ==
    /\ pc = "scan"
    /\ LET r == GetLocalHyperlinks(disk, args.infile, pdf)
       IN  /\ r.ok
           /\ hlinks' = r.hlinks
           /\ pc' = AfterScan(r.hlinks)
    /\ UNCHANGED <<entry, args, disk, pdf, isOpen, orig, idx, filespecs, nextId,
                   apCreated, tmpCreated, warned, written, error, errPath>>

\* one iteration of the loop of lines 222-238, and line 240 after the last
Attach ==
    /\ pc = "attach"
    /\ idx <= Len(hlinks)
    /\ LET hlink == hlinks[idx]
           known == InRegistry(filespecs, hlink.uri)
           specs == IF known THEN filespecs
                    ELSE Append(filespecs, NewFileSpec(disk, nextId, hlink.uri))
           apId  == IF known THEN nextId ELSE nextId + 1
           ap    == CreateAppearanceStream(apId, hlink.position)
       IN  /\ filespecs' = specs
           /\ nextId' = apId + 1
           /\ apCreated' = apCreated + 1
           /\ tmpCreated' = tmpCreated + 2
           /\ pdf' = ReplaceSlot(pdf, hlink.page_idx, hlink.annotation_idx,
                                 AttachFile(hlink.position,
                                            Registered(specs, hlink.uri), ap))
           /\ idx' = idx + 1
           /\ IF idx = Len(hlinks)
                THEN /\ warned' = warned + WarnIfSameName(NamesOf(specs))
                     /\ pc' = "save"
                ELSE UNCHANGED <<warned, pc>>
    /\ UNCHANGED <<entry, args, disk, isOpen, orig, hlinks, written, error, errPath>>

\* save() (line 287) and the end of the with-block
Save ==
    /\ pc = "save"
    /\ written' = Append(written, SavedAs(pdf, args.outfile))
    /\ disk' = disk \cup { PlaceOf(args.outfile) }
    /\ isOpen' = FALSE
    /\ pc' = "done"
    /\ UNCHANGED <<entry, args, pdf, orig, hlinks, idx, filespecs, nextId,
                   apCreated, tmpCreated, warned, error, errPath>>

Next ==
    \/ UserArgsReject
    \/ UserArgsAccept
    \/ CallReject
    \/ Open
    \/ ScanFail
    \/ ScanOk
    \/ Attach
    \/ Save

Spec == Init /\ [][Next]_vars

(***************************************************************************)
(* Vocabulary of the properties.                                           *)
(***************************************************************************)
Opened == orig # <<>>

\* the slots <<p, i>> of a document
Slots(doc) == UNION { { <<p, i>> : i \in 1..Len(doc[p].Annots) } : p \in 1..Len(doc) }

At(doc, sl) == doc[sl[1]].Annots[sl[2]]
HasSlot(doc, sl) == sl[1] \in 1..Len(doc) /\ sl[2] \in 1..Len(doc[sl[1]].Annots)

HasUri(a) == a.A.present /\ a.A.hasURI

\* the URI starts with http:, https:, ftp: or mailto:
RemoteScheme(uri) ==
    \/ StartsWith(uri, sHttp)
    \/ StartsWith(uri, sHttps)
    \/ StartsWith(uri, sFtp)
    \/ StartsWith(uri, sMailto)

\* what a URI is in the run of an invocation: whether its scheme is remote,
\* the path the conversion takes it for in the document of that invocation,
\* and what that path names on the disk as the run starts
UriFacts(a, u) ==
    [remote |-> RemoteScheme(u),
     path   |-> LocalPath(a.infile, u),
     target |-> Lookup(FilesAtStart(a), LocalPath(a.infile, u))]

\* UriFacts, tabulated for every invocation and every URI of the inputs
UriTable ==
    [i \in InFiles |-> [o \in OutFiles |-> [ie \in BOOLEAN |-> [oe \in BOOLEAN |->
        [u \in Uris |->
            UriFacts([infile |-> i, outfile |-> o, inExists |-> ie, outExists |-> oe], u)]]]]]

OfUri(u) == UriTable[args.infile][args.outfile][args.inExists][args.outExists][u]

RemoteLink(a) == HasUri(a) /\ OfUri(a.A.URI).remote
\* a hyperlink the conversion takes for a local file
LocalLink(a) == HasUri(a) /\ ~OfUri(a.A.URI).remote

\* the URI begins with letters followed by ':' (a scheme)
HasScheme(uri) ==
    \E n \in 2..Len(uri) :
        /\ uri[n] = ":"
        /\ \A m \in 1..(n - 1) : uri[m] \notin {":", "/", "."}

\* a scheme that is neither one of the four remote ones nor file:///
UnrecognizedScheme(uri) ==
    HasScheme(uri) /\ ~RemoteScheme(uri) /\ ~StartsWith(uri, sFile3)

\* the file on the disk a local hyperlink points to
Target(a) == OfUri(a.A.URI).target
MissingTarget(a) == LocalLink(a) /\ ~Target(a).ok

Converted(sl) == HasSlot(pdf, sl) /\ At(pdf, sl).Subtype = "FileAttachment"

(***************************************************************************)
(* C1: an annotation whose URI starts with http:, https:, ftp: or mailto:  *)
(* is the same annotation at the same slot at every point of a run, and in *)
(* the document written, whatever else is converted.                       *)
(***************************************************************************)
C1_RemoteUnchanged ==
    Opened =>
        \A sl \in Slots(orig) :
            RemoteLink(At(orig, sl)) =>
                /\ HasSlot(pdf, sl)
                /\ At(pdf, sl) = At(orig, sl)
                /\ \A k \in 1..Len(written) : At(written[k].pages, sl) = At(orig, sl)

\* a finished run that converted the annotation before a remote link on its page
C1_Witness ==
    /\ pc = "done"
    /\ \E p \in 1..Len(orig) :
          /\ Len(orig[p].Annots) = 2
          /\ Converted(<<p, 1>>)
          /\ RemoteLink(At(orig, <<p, 2>>))

(***************************************************************************)
(* C2: for every file on the disk, one run creates at most one file spec   *)
(* (embedded payload) for it, however the URIs spell its path, and every   *)
(* replacement annotation of a hyperlink to that file references it.       *)
(***************************************************************************)
C2_OnePayloadPerFile ==
    /\ \A k, l \in 1..Len(filespecs) :
          filespecs[k].payload = filespecs[l].payload => k = l
    /\ \A s, t \in Slots(orig) :
          /\ Converted(s) /\ Converted(t)
          /\ Target(At(orig, s)).at = Target(At(orig, t)).at
          => At(pdf, s).FS = At(pdf, t).FS

(***************************************************************************)
(* C3: when some non-remote hyperlink of the document resolves to a path   *)
(* that is not on the disk, the run ends with the missing-file error,      *)
(* nothing is written and no annotation is touched, wherever that link is. *)
(***************************************************************************)
AbortedUntouched ==
    /\ pc \in {"scan", "failed"}
    /\ pc = "failed" => error = "missing" /\ ~Lookup(disk, errPath).ok
    /\ written = <<>>
    /\ pdf = orig

C3_MissingAbortsBeforeSave ==
    Opened =>
        \/ AbortedUntouched
        \/ \A sl \in Slots(orig) : ~MissingTarget(At(orig, sl))

\* the run failed on a link of the last page that follows a valid local link
C3_Witness ==
    /\ pc = "failed"
    /\ error = "missing"
    /\ Len(orig) = 2
    /\ Len(orig[1].Annots) = 1 /\ LocalLink(At(orig, <<1, 1>>))
    /\ Target(At(orig, <<1, 1>>)).ok
    /\ Len(orig[2].Annots) = 1 /\ MissingTarget(At(orig, <<2, 1>>))

(***************************************************************************)
(* C4: one run builds at most one appearance object, from at most one pair *)
(* of temporary documents, and every replacement annotation carries that   *)
(* one appearance handle.                                                  *)
(***************************************************************************)
C4_OneAppearance ==
    /\ apCreated <= 1
    /\ tmpCreated <= 2
    /\ \A s, t \in Slots(orig) :
          Converted(s) /\ Converted(t) => At(pdf, s).AP = At(pdf, t).AP

(***************************************************************************)
(* C5: after a successful run every slot that held a local hyperlink holds *)
(* a file attachment with the hyperlink's rectangle, the file spec         *)
(* registered for the hyperlink's path, which embeds the file the path     *)
(* names, and the path's base name as description; so does what is written.*)
(***************************************************************************)
C5_Replacement ==
    pc = "done" =>
        \A sl \in Slots(orig) :
            LocalLink(At(orig, sl)) =>
                LET path == OfUri(At(orig, sl).A.URI).path
                    new  == At(pdf, sl)
                IN  /\ new.Subtype = "FileAttachment"
                    /\ new.Rect = At(orig, sl).Rect
                    /\ InRegistry(filespecs, path)
                    /\ new.FS = Registered(filespecs, path).obj
                    /\ Registered(filespecs, path).payload = Target(At(orig, sl)).at
                    /\ new.Contents = PathName(path)
                    /\ new.Contents = Target(At(orig, sl)).at[Len(Target(At(orig, sl)).at)]
                    /\ At(written[1].pages, sl) = new

\* a finished run that converted two hyperlinks to files of different names
C5_Witness ==
    /\ pc = "done"
    /\ \E s, t \in Slots(orig) :
          /\ Converted(s) /\ Converted(t)
          /\ At(pdf, s).Contents # At(pdf, t).Contents

(***************************************************************************)
(* C6: at every point of a run the document has its pages, every page has  *)
(* /Annots or not as before and of the same length, and every slot that    *)
(* did not hold a local hyperlink holds the annotation it held.            *)
(***************************************************************************)
C6_SlotsKept ==
    Opened =>
        /\ Len(pdf) = Len(orig)
        /\ \A p \in 1..Len(orig) :
              /\ pdf[p].hasAnnots = orig[p].hasAnnots
              /\ Len(pdf[p].Annots) = Len(orig[p].Annots)
              /\ \A i \in 1..Len(orig[p].Annots) :
                    ~LocalLink(orig[p].Annots[i]) => pdf[p].Annots[i] = orig[p].Annots[i]

\* between two iterations of the loop: the first slot of a page is replaced,
\* the second is still the hyperlink
C6_Witness ==
    /\ pc = "attach"
    /\ idx = 2
    /\ \E p \in 1..Len(orig) :
          /\ Len(orig[p].Annots) = 2
          /\ Converted(<<p, 1>>)
          /\ At(pdf, <<p, 2>>) = At(orig, <<p, 2>>)

(***************************************************************************)
(* C7: a hyperlink whose URI has a scheme other than the four remote ones  *)
(* and file:/// is left as it is and does not make the run fail.           *)
(***************************************************************************)
C7_UnrecognizedSchemeSkipped ==
    Opened =>
        \A sl \in Slots(orig) :
            (HasUri(At(orig, sl)) /\ UnrecognizedScheme(At(orig, sl).A.URI)) =>
                /\ At(pdf, sl) = At(orig, sl)
                /\ ~(error = "missing" /\ errPath = OfUri(At(orig, sl).A.URI).path)

(***************************************************************************)
(* C8: when the loop has ended, exactly one warning has been emitted if    *)
(* two registered paths share a base name and none otherwise; the run goes *)
(* on to save, and distinct registered paths have distinct file specs.     *)
(***************************************************************************)
SharedBaseName ==
    \E k, l \in 1..Len(filespecs) :
        /\ filespecs[k].uri # filespecs[l].uri
        /\ filespecs[k].uri.parts[Len(filespecs[k].uri.parts)]
             = filespecs[l].uri.parts[Len(filespecs[l].uri.parts)]

C8_DuplicateNameWarning ==
    /\ warned <= 1
    /\ pc \in {"save", "done"} =>
          /\ warned = (IF SharedBaseName THEN 1 ELSE 0)
          /\ error = "none"
          /\ \A k, l \in 1..Len(filespecs) :
                k # l => /\ filespecs[k].uri # filespecs[l].uri
                         /\ filespecs[k].obj # filespecs[l].obj

\* a finished run with one warning for two files x of different directories
C8_Witness ==
    /\ pc = "done"
    /\ warned = 1
    /\ Len(filespecs) = 2
    /\ filespecs[1].payload # filespecs[2].payload
    /\ Len(written) = 1

(***************************************************************************)
(* C9: a successful run writes the output exactly once, with the layout    *)
(* and encryption set, and what it writes has every local hyperlink        *)
(* replaced; nothing is written before the end, and a run without local    *)
(* hyperlinks writes once too.                                             *)
(***************************************************************************)
C9_WrittenOnceAtEnd ==
    /\ Len(written) <= 1
    /\ pc # "done" => written = <<>>
    /\ pc = "done" =>
          /\ Len(written) = 1
          /\ written[1] = [path |-> args.outfile, pages |-> pdf,
                           PageLayout |-> "OneColumn", PageMode |-> "UseOutlines",
                           linearize |-> TRUE, encrypted |-> TRUE]
          /\ \A sl \in Slots(orig) :
                LocalLink(At(orig, sl)) =>
                    At(written[1].pages, sl).Subtype = "FileAttachment"

\* a finished run of a document with annotations and no local hyperlink
C9_Witness ==
    /\ pc = "done"
    /\ hlinks = <<>>
    /\ Slots(orig) # {}
    /\ Len(written) = 1

(***************************************************************************)
(* C10.  As claimed: a command line with a non-PDF extension, a missing    *)
(* input, equal input and output, or an output that is already there, is   *)
(* rejected before the document is opened, and nothing is written.         *)
(***************************************************************************)
BadExtension == PathSuffix(PathOf(args.infile)) # sPdf \/ PathSuffix(PathOf(args.outfile)) # sPdf
Rejected ==
    /\ pc \in {"user_args", "failed"}
    /\ pc = "failed" => error \in {"suffix", "noinput", "samefile"}
    /\ pdf = <<>>
    /\ ~isOpen
    /\ written = <<>>

C10_AsClaimed ==
    (entry = "main" /\ (\/ BadExtension
                        \/ ~args.inExists
                        \/ PlaceOf(args.infile) = PlaceOf(args.outfile)
                        \/ args.outExists))
        => Rejected

(***************************************************************************)
(* C10, amended: a command line with a non-PDF extension, a missing input  *)
(* or equal input and output is rejected by user_args before the document  *)
(* is opened, and nothing is written; an output that is already there is   *)
(* not a reason to reject.                                                 *)
(***************************************************************************)
C10_Validation ==
    (entry = "main" /\ (\/ BadExtension
                        \/ ~args.inExists
                        \/ PlaceOf(args.infile) = PlaceOf(args.outfile)))
        => Rejected

\* the command line named one existing file by two spellings and was rejected
C10_Witness ==
    /\ entry = "main"
    /\ args.infile # args.outfile
    /\ PlaceOf(args.infile) = PlaceOf(args.outfile)
    /\ pc = "failed"
    /\ error = "samefile"

=============================================================================
